---- MODULE Spec2Model ----
(***************************************************************************)
(* MockStream (crates/interceptor/src/mock/mock_stream.rs): the loopback   *)
(* stream used to exercise an interceptor.  Six bounded mpsc channels, two *)
(* pump tasks, and the operations write_*, written_*, receive_*, read_*    *)
(* and close.  Both packet kinds run the same code, so every per-kind      *)
(* field is a function over Kinds.                                         *)
(***************************************************************************)
EXTENDS Integers, Sequences, FiniteSets, TLC

\* ------------------------------------------------------------------ bounds
\* mpsc::channel(1000), scaled: every channel holds at most ChanCap messages.
ChanCap == 2
\* vec![0u8; 1500], scaled: the pump's receive buffer holds BufLen bytes.
BufLen == 2
\* Number of write_* and receive_* calls (all kinds together) and of close
\* calls explored.
MaxCalls == 3
MaxCloses == 2

Kinds == {"rtcp", "rtp"}

\* ------------------------------------------------------------- packets
\* A packet is its identity plus what the codec will make of it:
\*   "ok"    marshals into the buffer and decodes,
\*   "long"  marshals to more bytes than the pump buffer holds,
\*   "nodec" marshals to bytes that unmarshal rejects,
\*   "noenc" fails to marshal.
Classes == {"ok", "long", "nodec", "noenc"}
NoPkt == [id |-> 0, cls |-> "ok"]

ClsCode(c) == CASE c = "ok" -> 1 [] c = "nodec" -> 2 [] c = "long" -> 3 [] OTHER -> 4
CodeCls(n) == CASE n = 1 -> "ok" [] n = 3 -> "long" [] OTHER -> "noenc"

Zeros(n) == [i \in 1..n |-> 0]

\* marshal(): the bytes of a packet, or an encode error.
Marshal(p) ==
    IF p.cls = "noenc" THEN [ok |-> FALSE, bytes |-> <<>>]
    ELSE IF p.cls = "long"
         THEN [ok |-> TRUE, bytes |-> <<p.id, ClsCode(p.cls)>> \o Zeros(BufLen - 1)]
         ELSE [ok |-> TRUE, bytes |-> <<p.id, ClsCode(p.cls)>>]

\* unmarshal(): the packet of some bytes, or a decode error.
Unmarshal(b) ==
    IF Len(b) < 2 \/ b[2] = 2 \/ b[2] = 0
    THEN [ok |-> FALSE, pkt |-> NoPkt]
    ELSE [ok |-> TRUE, pkt |-> [id |-> b[1], cls |-> CodeCls(b[2])]]

\* RTPWithError / RTCPWithError
Pkt(p) == [tag |-> "Pkt", pkt |-> p, err |-> "none"]
Err(e) == [tag |-> "Err", pkt |-> NoPkt, err |-> e]
NoEntry == [tag |-> "None", pkt |-> NoPkt, err |-> "none"]

\* ------------------------------------------------------------- state
VARIABLES
    writer,        \* rtcp_writer / rtp_writer: "Some" or "None"
    in_tx,         \* rtcp_in_tx / rtp_in_tx: TRUE while the slot holds the sender
    in_q,          \* inbound channel (rtcp_in_tx -> rtcp_in_rx)
    out_q,         \* outbound observation channel (.._out_modified_tx -> _rx)
    rd_q,          \* read channel (.._in_modified_tx -> _rx)
    pump_pc,       \* pump task: "read", "send", "done"
    pump_buf,      \* the pump's buf
    pump_hand,     \* the entry the pump is about to send
    pump_exit,     \* why the pump left its loop: "none", "eof", "err"
    wr_susp,       \* write_* suspended in send(): the packet, or NoPkt
    close_pc,      \* close(): "idle", "rtcp_taken", "rtp_taken"
    nclose,        \* close() calls that have returned
    close_res,     \* their results, in order
    iclose_calls,  \* times the interceptor's close has been invoked
    nw, nr,        \* write_* / receive_* calls made, per kind
    wdone,         \* packets whose write_* returned Ok, in order
    wobs,          \* what written_* returned, in order
    w_eos,         \* written_* returned None
    accepted,      \* packets receive_* put on the inbound channel, in order
    delivered,     \* entries the pump put on the read channel, in order
    robs,          \* what read_* returned, in order
    eos,           \* read_* returned None
    late,          \* receive_* calls that started after a close() had returned
    wres,          \* per kind, what the last write_* to return has returned
    new_pc,        \* MockStream::new: "start", "rtcp_writer", "rtp_writer",
                   \* "rtcp_pump", "done" (returned)
    icept,         \* the interceptor the stream was built with: "NoOp", or
                   \* "FailingClose", one whose close returns an error
    wt_wait,       \* per kind: a written_* call is suspended in recv()
    rd_wait,       \* per kind: a read_* call is suspended in recv()
    rcall          \* per kind, the last read() a caller made on the stream's
                   \* reader with a buffer of its own

vars == <<writer, in_tx, in_q, out_q, rd_q, pump_pc, pump_buf, pump_hand,
          pump_exit, wr_susp, close_pc, nclose, close_res, iclose_calls,
          nw, nr, wdone, wobs, w_eos, accepted, delivered, robs, eos,
          late, wres, new_pc, icept, wt_wait, rd_wait, rcall>>

outVars == <<writer, out_q, wr_susp, nw, wdone, wobs, w_eos, wres>>
inVars == <<in_tx, in_q, nr, accepted, late>>
pumpVars == <<pump_pc, pump_buf, pump_hand, pump_exit, delivered>>
readVars == <<rd_q, robs, eos>>
closeVars == <<close_pc, nclose, close_res, iclose_calls>>
lockVars == <<wt_wait, rd_wait>>
auxVars == <<new_pc, icept, lockVars, rcall>>

\* Result<usize> of a write: none yet, Ok(n), or the error of an unset slot.
NoResult == [ok |-> FALSE, n |-> 0, err |-> "none"]
InvalidWriter(k) ==
    [ok |-> FALSE, n |-> 0,
     err |-> IF k = "rtcp" THEN "invalid rtcp_writer" ELSE "invalid rtp_writer"]

\* No read() made yet.
NoCall == [st |-> "none", err |-> "none", n |-> 0, before |-> <<>>,
           after |-> <<>>, head |-> NoPkt]

\* The stream as new returns it.
NewStream ==
    /\ writer = [k \in Kinds |-> "Some"]
    /\ in_tx = [k \in Kinds |-> TRUE]
    /\ in_q = [k \in Kinds |-> <<>>]
    /\ out_q = [k \in Kinds |-> <<>>]
    /\ rd_q = [k \in Kinds |-> <<>>]
    /\ pump_pc = [k \in Kinds |-> "read"]
    /\ pump_buf = [k \in Kinds |-> Zeros(BufLen)]
    /\ pump_hand = [k \in Kinds |-> NoEntry]
    /\ pump_exit = [k \in Kinds |-> "none"]
    /\ wr_susp = [k \in Kinds |-> NoPkt]
    /\ close_pc = "idle"
    /\ nclose = 0
    /\ close_res = <<>>
    /\ iclose_calls = 0
    /\ nw = [k \in Kinds |-> 0]
    /\ nr = [k \in Kinds |-> 0]
    /\ wdone = [k \in Kinds |-> <<>>]
    /\ wobs = [k \in Kinds |-> <<>>]
    /\ w_eos = [k \in Kinds |-> FALSE]
    /\ accepted = [k \in Kinds |-> <<>>]
    /\ delivered = [k \in Kinds |-> <<>>]
    /\ robs = [k \in Kinds |-> <<>>]
    /\ eos = [k \in Kinds |-> FALSE]
    /\ late = [k \in Kinds |-> 0]
    /\ rcall = [k \in Kinds |-> NoCall]
    /\ wt_wait = [k \in Kinds |-> FALSE]
    /\ rd_wait = [k \in Kinds |-> FALSE]
    /\ wres = [k \in Kinds |-> NoResult]
    /\ new_pc = "done"

\* ... built with the NoOp interceptor.
Init == NewStream /\ icept = "NoOp"

\* write_* and receive_* calls made so far.
Calls == nw["rtcp"] + nw["rtp"] + nr["rtcp"] + nr["rtp"]

\* ------------------------------------------------------------- channels
\* Receiver::recv on a channel holding q whose senders are alive or all dropped:
\* a message, end-of-stream, or nothing yet (the caller stays suspended).
Recv(q, alive) ==
    IF Len(q) > 0 THEN "Some" ELSE IF alive THEN "Pending" ELSE "None"

\* (variant: the capacity test off by one)
HasRoom_OffByOne(q) == Len(q) < ChanCap - 1

\* (variant: the channel is taken to be unbounded)
HasRoom_Unbounded(q) == TRUE

\* Sender::send / try_send find room when fewer than ChanCap messages wait.
HasRoom(q) == Len(q) < ChanCap

\* (variant: close() drops the outbound senders too)
OutSenderAlive_UntilClose(k) == nclose = 0

\* rtcp_out_modified_tx / rtp_out_modified_tx are plain fields of the stream:
\* the sender lives as long as the stream does.
OutSenderAlive(k) == TRUE

\* rtcp_in_modified_tx / rtp_in_modified_tx are moved into the pump task and
\* dropped when the task returns.
RdSenderAlive(k) == pump_pc[k] # "done"

\* (variant: a clone of the inbound sender outlives the slot)
InSenderAlive_Always(k) == TRUE

\* The inbound sender is the one in the rtcp_in_tx / rtp_in_tx slot.
InSenderAlive(k) == in_tx[k]

\* ------------------------------------------------------------- interceptor
\* NoOp: every bind_* returns the capability it was given, close returns Ok.
NoOpBind(next) == next
NoOpClose == "Ok"

\* Interceptor::close of the interceptor the stream holds.
InterceptorClose == IF icept = "NoOp" THEN NoOpClose ELSE "Err"

\* ------------------------------------------------------------- write path
\* (variant: the packet is published twice)
HarnessWrite_Twice(q, p) == Append(Append(q, p), p)

\* (variant: the packet is put at the head of the channel)
HarnessWrite_AtHead(q, p) == <<p>> \o q

\* impl RTCPWriter / RTPWriter for MockStream: send a clone of the packet on
\* the outbound observation channel.
HarnessWrite(q, p) == Append(q, p)

\* ... and return Ok(0).
HarnessWriteResult == [ok |-> TRUE, n |-> 0, err |-> "none"]

\* write_rtcp / write_rtp: lock the writer slot (held by a write of this kind
\* that is suspended in send), call the bound writer.  With room on the channel
\* the send completes at once and the call returns Ok(0); with none the call
\* suspends inside send, still holding the lock.
Write(k, p) ==
    /\ Calls < MaxCalls
    /\ wr_susp[k] = NoPkt
    /\ nw' = [nw EXCEPT ![k] = @ + 1]
    /\ IF writer[k] = "Some"
       THEN IF HasRoom(out_q[k])
            THEN /\ out_q' = [out_q EXCEPT ![k] = HarnessWrite(@, NoOpBind(p))]
                 /\ wdone' = [wdone EXCEPT ![k] = Append(@, p)]
                 /\ wres' = [wres EXCEPT ![k] = HarnessWriteResult]
                 /\ UNCHANGED wr_susp
            ELSE /\ wr_susp' = [wr_susp EXCEPT ![k] = p]
                 /\ UNCHANGED <<out_q, wdone, wres>>
       ELSE /\ wres' = [wres EXCEPT ![k] = InvalidWriter(k)]
            /\ UNCHANGED <<out_q, wdone, wr_susp>>
    /\ UNCHANGED <<writer, wobs, w_eos>>
    /\ UNCHANGED <<inVars, pumpVars, readVars, closeVars>>
    /\ UNCHANGED auxVars

\* The suspended send completes once the channel has room.
WriteResume(k) ==
    /\ wr_susp[k] # NoPkt
    /\ HasRoom(out_q[k])
    /\ out_q' = [out_q EXCEPT ![k] = HarnessWrite(@, NoOpBind(wr_susp[k]))]
    /\ wdone' = [wdone EXCEPT ![k] = Append(@, wr_susp[k])]
    /\ wr_susp' = [wr_susp EXCEPT ![k] = NoPkt]
    /\ wres' = [wres EXCEPT ![k] = HarnessWriteResult]
    /\ UNCHANGED <<writer, nw, wobs, w_eos>>
    /\ UNCHANGED <<inVars, pumpVars, readVars, closeVars>>
    /\ UNCHANGED auxVars

\* written_rtcp / written_rtp: recv on the outbound observation channel.
Written(k) ==
    /\ Recv(out_q[k], OutSenderAlive(k)) # "Pending"
    /\ IF Recv(out_q[k], OutSenderAlive(k)) = "Some"
       THEN /\ wobs' = [wobs EXCEPT ![k] = Append(@, Head(out_q[k]))]
            /\ out_q' = [out_q EXCEPT ![k] = Tail(@)]
            /\ UNCHANGED w_eos
       ELSE /\ w_eos' = [w_eos EXCEPT ![k] = TRUE]
            /\ UNCHANGED <<wobs, out_q>>
    /\ UNCHANGED <<writer, wr_susp, nw, wdone, wres>>
    /\ UNCHANGED <<inVars, pumpVars, readVars, closeVars>>
    /\ UNCHANGED auxVars

\* ------------------------------------------------------------- inbound path
\* (variant: the slot is not consulted)
SlotHoldsSender_Always(k) == TRUE

\* The slot test of receive_*: `if let Some(tx) = &*rtcp_in_tx`.
SlotHoldsSender(k) == in_tx[k]

\* tx.try_send(pkt) with room on the channel: the packet joins the tail.
TrySend(q, p) == Append(q, p)

\* receive_rtcp / receive_rtp: under the slot's lock, try_send if the slot
\* holds the sender; the result of try_send is discarded.
Receive(k, p) ==
    /\ Calls < MaxCalls
    /\ nr' = [nr EXCEPT ![k] = @ + 1]
    /\ late' = [late EXCEPT ![k] = IF nclose > 0 THEN @ + 1 ELSE @]
    /\ IF SlotHoldsSender(k) /\ HasRoom(in_q[k])
       THEN /\ in_q' = [in_q EXCEPT ![k] = TrySend(@, p)]
            /\ accepted' = [accepted EXCEPT ![k] = Append(@, p)]
       ELSE UNCHANGED <<in_q, accepted>>
    /\ UNCHANGED in_tx
    /\ UNCHANGED <<outVars, pumpVars, readVars, closeVars>>
    /\ UNCHANGED auxVars

\* (variant: the packet is looked at but left on the inbound channel)
ReaderRead_Peek(q, alive, buf) ==
    IF Recv(q, alive) = "None"
    THEN [st |-> "Err", err |-> "ErrIoEOF", n |-> 0, buf |-> buf, q |-> q]
    ELSE LET m == Marshal(Head(q))
             n == Len(m.bytes)
         IN  IF ~m.ok
             THEN [st |-> "Err", err |-> "EncodeError", n |-> 0, buf |-> buf, q |-> Tail(q)]
             ELSE IF n > Len(buf)
             THEN [st |-> "Err", err |-> "ErrShortBuffer", n |-> 0, buf |-> buf, q |-> Tail(q)]
             ELSE [st |-> "Ok", err |-> "none", n |-> n,
                   buf |-> [i \in 1..Len(buf) |-> IF i <= n THEN m.bytes[i] ELSE buf[i]],
                   q |-> q]

\* (variant: end-of-stream as soon as the sender is gone, queued packets or not)
ReaderRead_EofWhenClosed(q, alive, buf) ==
    IF ~alive
    THEN [st |-> "Err", err |-> "ErrIoEOF", n |-> 0, buf |-> buf, q |-> q]
    ELSE LET m == Marshal(Head(q))
             n == Len(m.bytes)
         IN  IF ~m.ok
             THEN [st |-> "Err", err |-> "EncodeError", n |-> 0, buf |-> buf, q |-> Tail(q)]
             ELSE IF n > Len(buf)
             THEN [st |-> "Err", err |-> "ErrShortBuffer", n |-> 0, buf |-> buf, q |-> Tail(q)]
             ELSE [st |-> "Ok", err |-> "none", n |-> n,
                   buf |-> [i \in 1..Len(buf) |-> IF i <= n THEN m.bytes[i] ELSE buf[i]],
                   q |-> Tail(q)]

\* (variant: a short buffer receives as many bytes as it holds)
ReaderRead_PartialCopy(q, alive, buf) ==
    IF Recv(q, alive) = "None"
    THEN [st |-> "Err", err |-> "ErrIoEOF", n |-> 0, buf |-> buf, q |-> q]
    ELSE LET m == Marshal(Head(q))
             n == Len(m.bytes)
         IN  IF ~m.ok
             THEN [st |-> "Err", err |-> "EncodeError", n |-> 0, buf |-> buf, q |-> Tail(q)]
             ELSE IF n > Len(buf)
             THEN [st |-> "Err", err |-> "ErrShortBuffer", n |-> 0,
                   buf |-> [i \in 1..Len(buf) |-> m.bytes[i]], q |-> Tail(q)]
             ELSE [st |-> "Ok", err |-> "none", n |-> n,
                   buf |-> [i \in 1..Len(buf) |-> IF i <= n THEN m.bytes[i] ELSE buf[i]],
                   q |-> Tail(q)]

\* impl RTCPReader / RTPReader for MockStream: read(buf).
ReaderRead(q, alive, buf) ==
    IF Recv(q, alive) = "None"
    THEN [st |-> "Err", err |-> "ErrIoEOF", n |-> 0, buf |-> buf, q |-> q]
    ELSE LET m == Marshal(Head(q))
             n == Len(m.bytes)
         IN  IF ~m.ok
             THEN [st |-> "Err", err |-> "EncodeError", n |-> 0, buf |-> buf, q |-> Tail(q)]
             ELSE IF n > Len(buf)
             THEN [st |-> "Err", err |-> "ErrShortBuffer", n |-> 0, buf |-> buf, q |-> Tail(q)]
             ELSE [st |-> "Ok", err |-> "none", n |-> n,
                   buf |-> [i \in 1..Len(buf) |-> IF i <= n THEN m.bytes[i] ELSE buf[i]],
                   q |-> Tail(q)]

\* Buffers a caller may hand to read(): too short for any packet, as long as
\* the pump's, and long enough for every packet; filled with a byte no packet
\* marshals to.
CallerBufs == {[i \in 1..n |-> 255] : n \in {1, BufLen, BufLen + 1}}

\* RTCPReader::read / RTPReader::read called on the stream with the caller's
\* own buffer.
ReaderCall(k, buf) ==
    /\ Recv(in_q[k], InSenderAlive(k)) # "Pending"
    /\ LET r == ReaderRead(in_q[k], InSenderAlive(k), buf)
       IN  /\ in_q' = [in_q EXCEPT ![k] = r.q]
           /\ rcall' = [rcall EXCEPT ![k] =
                          [st |-> r.st, err |-> r.err, n |-> r.n, before |-> buf,
                           after |-> r.buf,
                           head |-> IF Len(in_q[k]) > 0 THEN Head(in_q[k]) ELSE NoPkt]]
    /\ UNCHANGED <<in_tx, nr, accepted, late, new_pc, icept, lockVars>>
    /\ UNCHANGED <<outVars, pumpVars, readVars, closeVars>>

\* (variant: IoEOF is forwarded like any other read error)
PumpForward_SurfaceEof(r) ==
    IF r.st = "Err"
    THEN Err(r.err)
    ELSE LET u == Unmarshal(SubSeq(r.buf, 1, r.n))
         IN  IF u.ok THEN Pkt(u.pkt) ELSE Err("DecodeError")

\* The pump's match on the read result: what it will forward, if anything.
\* IoEOF is the one error that is not forwarded.
PumpForward(r) ==
    IF r.st = "Err"
    THEN IF r.err # "ErrIoEOF" THEN Err(r.err) ELSE NoEntry
    ELSE LET u == Unmarshal(SubSeq(r.buf, 1, r.n))
         IN  IF u.ok THEN Pkt(u.pkt) ELSE Err("DecodeError")

\* One pass of the pump's loop up to its send: read, then decode.
PumpRead(k) ==
    /\ pump_pc[k] = "read"
    /\ Recv(in_q[k], InSenderAlive(k)) # "Pending"
    /\ LET r == ReaderRead(in_q[k], InSenderAlive(k), pump_buf[k])
           f == PumpForward(r)
       IN  /\ in_q' = [in_q EXCEPT ![k] = r.q]
           /\ pump_buf' = [pump_buf EXCEPT ![k] = r.buf]
           /\ pump_hand' = [pump_hand EXCEPT ![k] = f]
           /\ IF f = NoEntry
              THEN /\ pump_pc' = [pump_pc EXCEPT ![k] = "done"]
                   /\ pump_exit' = [pump_exit EXCEPT ![k] = "eof"]
              ELSE /\ pump_pc' = [pump_pc EXCEPT ![k] = "send"]
                   /\ UNCHANGED pump_exit
    /\ UNCHANGED <<in_tx, nr, accepted, late, delivered>>
    /\ UNCHANGED <<outVars, readVars, closeVars>>
    /\ UNCHANGED auxVars

\* (variant: the entry is put at the head of the read channel)
PumpSendEntry_AtHead(q, e) == <<e>> \o q

\* rtcp_in_modified_tx.send(..) / rtp_in_modified_tx.send(..): the entry joins
\* the tail of the read channel.
PumpSendEntry(q, e) == Append(q, e)

\* (variant: the break after a forwarded error is missing)
PumpAfterSend_NoBreak(e) == "read"

\* After forwarding: an error ends the loop (break), a packet continues it.
PumpAfterSend(e) == IF e.tag = "Err" THEN "done" ELSE "read"

\* The pump's send on the read channel; it waits for room.
PumpSend(k) ==
    /\ pump_pc[k] = "send"
    /\ HasRoom(rd_q[k])
    /\ rd_q' = [rd_q EXCEPT ![k] = PumpSendEntry(@, pump_hand[k])]
    /\ delivered' = [delivered EXCEPT ![k] = Append(@, pump_hand[k])]
    /\ pump_pc' = [pump_pc EXCEPT ![k] = PumpAfterSend(pump_hand[k])]
    /\ pump_exit' = [pump_exit EXCEPT ![k] =
                        IF PumpAfterSend(pump_hand[k]) = "done" THEN "err" ELSE @]
    /\ pump_hand' = [pump_hand EXCEPT ![k] = NoEntry]
    /\ UNCHANGED <<pump_buf, robs, eos>>
    /\ UNCHANGED <<outVars, inVars, closeVars>>
    /\ UNCHANGED auxVars

\* read_rtcp / read_rtp: recv on the read channel.
Read(k) ==
    /\ Recv(rd_q[k], RdSenderAlive(k)) # "Pending"
    /\ IF Recv(rd_q[k], RdSenderAlive(k)) = "Some"
       THEN /\ robs' = [robs EXCEPT ![k] = Append(@, Head(rd_q[k]))]
            /\ rd_q' = [rd_q EXCEPT ![k] = Tail(@)]
            /\ UNCHANGED eos
       ELSE /\ eos' = [eos EXCEPT ![k] = TRUE]
            /\ UNCHANGED <<robs, rd_q>>
    /\ UNCHANGED <<outVars, inVars, pumpVars, closeVars>>
    /\ UNCHANGED auxVars

\* ------------------------------------------------------------- close
\* (variant: the sender is left in its slot)
Take_Forgotten(slot) == slot

\* Option::take on a sender slot: the slot is empty afterwards.
Take(slot) == FALSE

\* close(), first block: take the RTCP inbound sender.
CloseTakeRtcp ==
    /\ close_pc = "idle"
    /\ nclose < MaxCloses
    /\ in_tx' = [in_tx EXCEPT !["rtcp"] = Take(@)]
    /\ close_pc' = "rtcp_taken"
    /\ UNCHANGED <<nclose, close_res, iclose_calls, in_q, nr, accepted, late>>
    /\ UNCHANGED <<outVars, pumpVars, readVars>>
    /\ UNCHANGED auxVars

\* (variant: close() leaves the RTP inbound sender in its slot)
CloseTakeRtp_Skipped ==
    /\ close_pc = "rtcp_taken"
    /\ close_pc' = "rtp_taken"
    /\ UNCHANGED <<nclose, close_res, iclose_calls, inVars>>
    /\ UNCHANGED <<outVars, pumpVars, readVars>>
    /\ UNCHANGED auxVars

\* close(), second block: take the RTP inbound sender.
CloseTakeRtp ==
    /\ close_pc = "rtcp_taken"
    /\ in_tx' = [in_tx EXCEPT !["rtp"] = Take(@)]
    /\ close_pc' = "rtp_taken"
    /\ UNCHANGED <<nclose, close_res, iclose_calls, in_q, nr, accepted, late>>
    /\ UNCHANGED <<outVars, pumpVars, readVars>>
    /\ UNCHANGED auxVars

\* close(), last line: self.interceptor.close().await is the call's result.
CloseInterceptor ==
    /\ close_pc = "rtp_taken"
    /\ iclose_calls' = iclose_calls + 1
    /\ close_res' = Append(close_res, InterceptorClose)
    /\ nclose' = nclose + 1
    /\ close_pc' = "idle"
    /\ UNCHANGED <<outVars, inVars, pumpVars, readVars>>
    /\ UNCHANGED auxVars

\* ------------------------------------------------------------- inputs
\* Every call brings a packet of its own: receive_* packets are numbered
\* 1, 2, .. per kind, write_* packets -1, -2, .. per kind.
WritePkt(k) == [id |-> -(nw[k] + 1), cls |-> "ok"]
ReceivePkts(k) == {[id |-> nr[k] + 1, cls |-> c] : c \in Classes}

Next ==
    \/ \E k \in Kinds : Write(k, WritePkt(k))
    \/ \E k \in Kinds : WriteResume(k)
    \/ \E k \in Kinds : Written(k)
    \/ \E k \in Kinds : \E p \in ReceivePkts(k) : Receive(k, p)
    \/ \E k \in Kinds : PumpRead(k)
    \/ \E k \in Kinds : PumpSend(k)
    \/ \E k \in Kinds : Read(k)
    \/ CloseTakeRtcp
    \/ CloseTakeRtp
    \/ CloseInterceptor

\* ------------------------------------------------------------- properties
Range(s) == {s[i] : i \in DOMAIN s}
Count(s, e) == Cardinality({i \in DOMAIN s : s[i] = e})

\* C1: with the identity interceptor, after any run of successful write_*
\* calls the written stream holds exactly those packets, each once and in
\* the order written: what written_* has returned followed by what still
\* waits on the channel is the sequence of packets written; the stream never
\* ends, and on an empty channel a further poll stays pending.
C1_SingleDelivery ==
    \A k \in Kinds :
        /\ wobs[k] \o out_q[k] = wdone[k]
        /\ \A p \in Range(wdone[k]) : Count(wobs[k] \o out_q[k], p) = 1
        /\ Len(wdone[k]) + (IF wr_susp[k] # NoPkt THEN 1 ELSE 0) = nw[k]
        /\ ~w_eos[k]
        /\ out_q[k] = <<>> => Recv(out_q[k], OutSenderAlive(k)) = "Pending"

\* Two packets written, both returned by written_*, nothing left to poll.
C1_Witness ==
    \E k \in Kinds :
        /\ Len(wdone[k]) = 2
        /\ wobs[k] = wdone[k]
        /\ out_q[k] = <<>>

\* C10 as stated: no write_* call is ever suspended waiting for queue space.
C10_WriteNeverSuspends ==
    \A k \in Kinds : wr_susp[k] = NoPkt

\* C10, amended: a write_* call suspends only when the outbound observation
\* channel already holds its full capacity of unconsumed packets; with fewer
\* waiting it publishes its packet and returns in the same step.
C10_SuspendsOnlyWhenFull ==
    [][\A k \in Kinds :
          nw'[k] = nw[k] + 1 =>
              IF Len(out_q[k]) = ChanCap
              THEN wr_susp'[k] # NoPkt /\ out_q'[k] = out_q[k] /\ wdone'[k] = wdone[k]
              ELSE wr_susp'[k] = NoPkt /\ Len(out_q'[k]) = Len(out_q[k]) + 1
                   /\ Len(wdone'[k]) = Len(wdone[k]) + 1]_vars

\* A write_* is suspended behind a full channel.
C10_Witness ==
    \E k \in Kinds : wr_susp[k] # NoPkt /\ Len(out_q[k]) = ChanCap

\* The packets the pump has taken off the inbound channel so far.
Taken(k) == SubSeq(accepted[k], 1, Len(accepted[k]) - Len(in_q[k]))
\* What the pump has produced: the entries it has put on the read channel and
\* the one it holds, if any.
Produced(k) ==
    delivered[k] \o (IF pump_hand[k] = NoEntry THEN <<>> ELSE <<pump_hand[k]>>)
Good(p) == p.cls = "ok"

\* C2: every packet receive_* accepted that fits the pump buffer and decodes
\* is on its way exactly once: it waits on the inbound channel, or the pump
\* has produced exactly one Pkt entry for it; that entry is on the read
\* channel or has been returned by read_*, never both and never twice; and
\* no Pkt entry exists for a packet that was not accepted.
C2_ExactlyOnce ==
    \A k \in Kinds :
        /\ Len(in_q[k]) <= Len(accepted[k])
        /\ in_q[k] = SubSeq(accepted[k], Len(Taken(k)) + 1, Len(accepted[k]))
        /\ delivered[k] = robs[k] \o rd_q[k]
        /\ \A i \in DOMAIN accepted[k] :
              Good(accepted[k][i]) =>
                  /\ Count(accepted[k], accepted[k][i]) = 1
                  /\ Count(Produced(k), Pkt(accepted[k][i])) =
                         (IF i <= Len(Taken(k)) THEN 1 ELSE 0)
        /\ \A e \in Range(Produced(k)) :
              e.tag = "Pkt" => e.pkt \in Range(accepted[k]) /\ Good(e.pkt)

\* Three packets accepted; read_* has returned two Pkt entries and the third
\* packet still waits on the inbound channel.
C2_Witness ==
    \E k \in Kinds :
        /\ Len(accepted[k]) = 3
        /\ Len(robs[k]) = 2
        /\ \A i \in 1..2 : robs[k][i] = Pkt(accepted[k][i])
        /\ Len(in_q[k]) = 1

\* C3: the read stream keeps the order of acceptance: the i-th entry the pump
\* put on the read channel is, when it is a packet, the i-th packet accepted,
\* and of two packets on the read stream (returned by read_* or still queued)
\* the earlier one was accepted earlier.
C3_OrderPreserved ==
    \A k \in Kinds :
        LET s == robs[k] \o rd_q[k]
        IN  /\ \A i \in DOMAIN delivered[k] :
                  delivered[k][i].tag = "Pkt" =>
                      /\ i <= Len(accepted[k])
                      /\ delivered[k][i].pkt = accepted[k][i]
            /\ \A i, j \in DOMAIN s :
                  (i < j /\ s[i].tag = "Pkt" /\ s[j].tag = "Pkt") =>
                      \E a, b \in DOMAIN accepted[k] :
                          a < b /\ accepted[k][a] = s[i].pkt /\ accepted[k][b] = s[j].pkt

\* A was accepted before B; read_* has returned A and B waits on the read
\* channel behind it.
C3_Witness ==
    \E k \in Kinds :
        /\ Len(accepted[k]) >= 2
        /\ robs[k] = <<Pkt(accepted[k][1])>>
        /\ rd_q[k] = <<Pkt(accepted[k][2])>>

\* C4 as stated: over any sequence of close() calls the interceptor's close
\* is invoked at most once.
C4_InterceptorClosedAtMostOnce ==
    iclose_calls <= 1

\* The stream's six channels, two writer slots and two inbound sender slots.
streamState == <<in_q, out_q, rd_q, writer, in_tx>>

\* C5: every step of a close() that follows a completed close() finds both
\* inbound sender slots empty and leaves them empty, changes none of the six
\* channels nor the writer slots, and the call returns what the first one did.
C5_SecondCloseNoOp ==
    [][(nclose >= 1 /\ close_pc' # close_pc) =>
          /\ \A k \in Kinds : ~in_tx[k] /\ ~in_tx'[k]
          /\ UNCHANGED streamState
          /\ nclose' # nclose =>
                 /\ nclose' = nclose + 1
                 /\ Len(close_res') = nclose'
                 /\ close_res'[nclose'] = close_res'[1]]_vars

\* A second close() has returned while packets waited on an inbound and on an
\* outbound channel.
C5_Witness ==
    /\ nclose = 2
    /\ \E k \in Kinds : in_q[k] # <<>>
    /\ \E k \in Kinds : out_q[k] # <<>>

\* Every packet anywhere on the inbound path of kind k.
InboundPkts(k) ==
    Range(in_q[k]) \cup {e.pkt : e \in {x \in Range(Produced(k)) : x.tag = "Pkt"}}

\* C6: a receive_* call either appends its packet to the inbound channel or
\* changes nothing, and touches no other channel; one that starts after a
\* close() has returned changes nothing; and no packet is ever on the inbound
\* path or the read stream unless receive_* accepted it, so a dropped packet
\* (whose number is never used again) shows up nowhere.
C6_PostCloseSilence ==
    [][\A k \in Kinds :
          /\ nr'[k] = nr[k] + 1 =>
                /\ UNCHANGED <<out_q, rd_q, wobs, robs, delivered, pump_hand, in_tx>>
                /\ \A j \in Kinds \ {k} : in_q'[j] = in_q[j]
                /\ \/ in_q'[k] = in_q[k] /\ accepted'[k] = accepted[k]
                   \/ /\ Len(in_q'[k]) = Len(in_q[k]) + 1
                      /\ SubSeq(in_q'[k], 1, Len(in_q[k])) = in_q[k]
                      /\ in_q'[k][Len(in_q'[k])].id = nr'[k]
                      /\ accepted'[k] = Append(accepted[k], in_q'[k][Len(in_q'[k])])
                      /\ in_tx[k]
                /\ (nclose >= 1 \/ ~in_tx[k]) =>
                      in_q'[k] = in_q[k] /\ accepted'[k] = accepted[k]
          /\ \A p \in Range(accepted'[k]) : p.id >= 1 /\ p.id <= nr'[k]
          /\ InboundPkts(k)' \subseteq Range(accepted'[k])
          /\ \A p \in Range(wobs'[k] \o out_q'[k]) : p.id < 0]_vars

\* A receive_* call was made after close() had returned, on a kind that had
\* accepted a packet before; only that earlier packet is on the read stream.
C6_Witness ==
    \E k \in Kinds :
        /\ late[k] >= 1
        /\ Len(accepted[k]) = 1
        /\ nr[k] = 2
        /\ robs[k] = <<Pkt(accepted[k][1])>>

AllPkts(s) == [i \in DOMAIN s |-> Pkt(s[i])]

\* C7 as stated, for the packets that fit and decode: once close() has
\* returned, the read stream has reported end-of-stream only if every such
\* accepted packet was delivered before.
C7_EosOnlyAfterAllDelivered ==
    \A k \in Kinds :
        (nclose >= 1 /\ eos[k]) =>
            \A p \in Range(accepted[k]) : Good(p) => Pkt(p) \in Range(robs[k])

\* C7, amended: the read stream reports end-of-stream only after the pump has
\* exited and everything it forwarded has been returned.  If the pump left on
\* IoEOF, the sender slot was empty, the inbound channel drained, and every
\* accepted packet was delivered in order; if it left on an error, the Err
\* entry is the last one returned, it stands for a packet that does not fit
\* or does not decode, and all packets accepted before that one were
\* delivered in order.  With only well-formed packets the pump never leaves
\* on an error.
C7_EosAfterDrain ==
    \A k \in Kinds :
        /\ (\A p \in Range(Taken(k)) : Good(p)) => pump_exit[k] # "err"
        /\ eos[k] =>
              /\ pump_pc[k] = "done"
              /\ rd_q[k] = <<>>
              /\ robs[k] = delivered[k]
              /\ pump_exit[k] = "eof" =>
                     /\ ~in_tx[k]
                     /\ in_q[k] = <<>>
                     /\ robs[k] = AllPkts(accepted[k])
              /\ pump_exit[k] = "err" =>
                     LET n == Len(robs[k])
                     IN  /\ n >= 1
                         /\ n = Len(Taken(k))
                         /\ robs[k][n].tag = "Err"
                         /\ ~Good(accepted[k][n])
                         /\ SubSeq(robs[k], 1, n - 1) = AllPkts(SubSeq(accepted[k], 1, n - 1))

\* close() has returned, two accepted packets were delivered, then the read
\* stream ended.
C7_Witness ==
    \E k \in Kinds :
        /\ nclose >= 1
        /\ eos[k]
        /\ pump_exit[k] = "eof"
        /\ Len(accepted[k]) = 2
        /\ robs[k] = AllPkts(accepted[k])

ErrAt(s) == {i \in DOMAIN s : s[i].tag = "Err"}

\* C8: the pump forwards at most one Err entry; once forwarded it is the last
\* entry ever put on the read channel and the pump has left its loop for
\* good; a pump that left on an error forwarded exactly one; and once read_*
\* has returned the Err entry, the next read_* reports end-of-stream.
C8_TerminalErrorOnce ==
    \A k \in Kinds :
        /\ Cardinality(ErrAt(delivered[k])) <= 1
        /\ ErrAt(delivered[k]) # {} =>
              /\ ErrAt(delivered[k]) = {Len(delivered[k])}
              /\ pump_pc[k] = "done"
              /\ pump_exit[k] = "err"
              /\ pump_hand[k] = NoEntry
        /\ pump_exit[k] = "err" => Cardinality(ErrAt(delivered[k])) = 1
        /\ pump_pc[k] = "done" <=> pump_exit[k] # "none"
        /\ ErrAt(robs[k]) # {} =>
              /\ rd_q[k] = <<>>
              /\ Recv(rd_q[k], RdSenderAlive(k)) = "None"

\* A packet, then the terminal error, then end-of-stream were returned by
\* read_*.
C8_Witness ==
    \E k \in Kinds :
        /\ Len(robs[k]) = 2
        /\ robs[k][1].tag = "Pkt"
        /\ robs[k][2].tag = "Err"
        /\ eos[k]

\* C9: no Err entry ever carries IoEOF; a pump that left on IoEOF forwarded no
\* Err entry; and while every accepted packet fits and decodes there is no
\* Err entry anywhere on the read stream, so the consumer sees Pkt entries
\* only, then end-of-stream.
C9_EofNotSurfaced ==
    \A k \in Kinds :
        /\ \A e \in Range(Produced(k)) : e.tag = "Err" => e.err # "ErrIoEOF"
        /\ pump_exit[k] = "eof" => ErrAt(Produced(k)) = {}
        /\ (\A p \in Range(accepted[k]) : Good(p)) =>
              /\ ErrAt(Produced(k)) = {}
              /\ ErrAt(robs[k] \o rd_q[k]) = {}
              /\ eos[k] => robs[k] = AllPkts(accepted[k])

\* After close(), the pump met IoEOF and left; read_* returned the one
\* delivered packet and then end-of-stream.
C9_Witness ==
    \E k \in Kinds :
        /\ nclose >= 1
        /\ pump_exit[k] = "eof"
        /\ Len(robs[k]) = 1
        /\ robs[k][1].tag = "Pkt"
        /\ eos[k]

\* C11: no inbound channel ever holds more than its capacity; a receive_*
\* call is never held up by a full channel (it can always be taken), and one
\* made while the channel is full leaves the channel as it was: the packet
\* offered, the newest, is the one dropped.
C11_ReceiveDropsNewestWhenFull ==
    [][\A k \in Kinds :
          /\ Len(in_q'[k]) <= ChanCap
          /\ (Calls < MaxCalls) => ENABLED (\E p \in ReceivePkts(k) : Receive(k, p))
          /\ (nr'[k] = nr[k] + 1 /\ Len(in_q[k]) = ChanCap) =>
                /\ in_q'[k] = in_q[k]
                /\ accepted'[k] = accepted[k]
                /\ \A p \in Range(in_q'[k]) : p.id # nr'[k]]_vars

\* The inbound channel is full, its sender still in the slot, and one more
\* receive_* call has been made and dropped.
C11_Witness ==
    \E k \in Kinds :
        /\ in_tx[k]
        /\ Len(in_q[k]) = ChanCap
        /\ nr[k] = ChanCap + 1
        /\ Len(accepted[k]) = ChanCap

\* ------------------------------------------------- the reader, called directly
\* The stream's reader driven by a caller holding the stream as a reader, with
\* buffers of its own choosing, while packets are injected and the stream is
\* closed; the pump tasks are not scheduled meanwhile.
NextReader ==
    \/ \E k \in Kinds : \E p \in ReceivePkts(k) : Receive(k, p)
    \/ \E k \in Kinds : \E b \in CallerBufs : ReaderCall(k, b)
    \/ CloseTakeRtcp
    \/ CloseTakeRtp
    \/ CloseInterceptor

SpecReader == Init /\ [][NextReader]_vars

\* C12: a read() whose buffer is shorter than the marshaled packet returns
\* ErrShortBuffer, and every failed read leaves each byte of the caller's
\* buffer as it was; a successful read returns the marshaled length n, has put
\* the marshaled bytes in the first n bytes and left the rest of the buffer alone.
C12_ShortBufferLeavesBuffer ==
    \A k \in Kinds :
        LET c == rcall[k]
            m == Marshal(c.head)
        IN  c.st # "none" =>
              /\ Len(c.after) = Len(c.before)
              /\ (c.err # "ErrIoEOF" /\ m.ok /\ Len(m.bytes) > Len(c.before)) =>
                    c.err = "ErrShortBuffer"
              /\ c.st = "Err" => c.after = c.before
              /\ c.st = "Ok" =>
                    /\ m.ok /\ c.n = Len(m.bytes) /\ c.n <= Len(c.before)
                    /\ SubSeq(c.after, 1, c.n) = m.bytes
                    /\ \A i \in (c.n + 1)..Len(c.before) : c.after[i] = c.before[i]

\* One reader has refused a packet for a non-empty buffer that was too short,
\* the other has filled only part of a longer buffer.
C12_Witness ==
    \E k, j \in Kinds :
        /\ rcall[k].err = "ErrShortBuffer" /\ Len(rcall[k].before) > 0
        /\ rcall[j].st = "Ok" /\ rcall[j].n < Len(rcall[j].before)

\* C13: after a read() returned ErrShortBuffer for a packet, the next read()
\* on that reader with a buffer long enough for it returns that same packet.
C13_ShortBufferRetryReturnsPacket ==
    [][\A k \in Kinds :
          LET m == Marshal(rcall[k].head)
          IN  (/\ rcall[k].err = "ErrShortBuffer"
               /\ rcall'[k] # rcall[k]
               /\ Len(rcall'[k].before) >= Len(m.bytes)) =>
                 /\ rcall'[k].st = "Ok"
                 /\ SubSeq(rcall'[k].after, 1, rcall'[k].n) = m.bytes]_vars

\* ------------------------------------------------- the stream once closed
\* What may wait on an inbound channel: the packets of the first receive_*
\* calls, none of them dropped.
InboundLoads ==
    UNION {{[i \in 1..n |-> [id |-> i, cls |-> f[i]]] : f \in [1..n -> Classes]} :
           n \in 0..ChanCap}

\* The stream after new(), some receive_* calls and one close(), the pump tasks
\* not scheduled yet: every step from here on comes after close() has returned.
InitClosed ==
    \E a \in InboundLoads : \E b \in InboundLoads :
        /\ Len(a) + Len(b) <= MaxCalls
        /\ in_q = [k \in Kinds |-> IF k = "rtcp" THEN a ELSE b]
        /\ accepted = [k \in Kinds |-> IF k = "rtcp" THEN a ELSE b]
        /\ nr = [k \in Kinds |-> IF k = "rtcp" THEN Len(a) ELSE Len(b)]
        /\ in_tx = [k \in Kinds |-> Take(TRUE)]
        /\ close_pc = "idle"
        /\ nclose = 1
        /\ close_res = <<NoOpClose>>
        /\ iclose_calls = 1
        /\ writer = [k \in Kinds |-> "Some"]
        /\ out_q = [k \in Kinds |-> <<>>]
        /\ rd_q = [k \in Kinds |-> <<>>]
        /\ pump_pc = [k \in Kinds |-> "read"]
        /\ pump_buf = [k \in Kinds |-> Zeros(BufLen)]
        /\ pump_hand = [k \in Kinds |-> NoEntry]
        /\ pump_exit = [k \in Kinds |-> "none"]
        /\ wr_susp = [k \in Kinds |-> NoPkt]
        /\ nw = [k \in Kinds |-> 0]
        /\ wdone = [k \in Kinds |-> <<>>]
        /\ wobs = [k \in Kinds |-> <<>>]
        /\ w_eos = [k \in Kinds |-> FALSE]
        /\ delivered = [k \in Kinds |-> <<>>]
        /\ robs = [k \in Kinds |-> <<>>]
        /\ eos = [k \in Kinds |-> FALSE]
        /\ late = [k \in Kinds |-> 0]
        /\ rcall = [k \in Kinds |-> NoCall]
        /\ wt_wait = [k \in Kinds |-> FALSE]
        /\ rd_wait = [k \in Kinds |-> FALSE]
        /\ wres = [k \in Kinds |-> NoResult]
        /\ new_pc = "done"
        /\ icept = "NoOp"

SpecClosed == InitClosed /\ [][Next]_vars

\* C14 (as stated): once close() has returned, a pump completes at most one
\* further read/forward iteration before it terminates. (Under SpecClosed every
\* entry a pump has forwarded was forwarded after close() returned.)
C14_AtMostOneIterationAfterClose ==
    \A k \in Kinds : Len(delivered[k]) <= 1

\* C14 (amended): once close() has returned, each further pass of a pump's
\* loop takes one packet off the inbound channel, and the pass that finds the
\* channel empty is the last: the read returns ErrIoEOF, nothing is forwarded
\* and the pump terminates. The pump stays at its read only while the channel
\* is empty and a sender is left.
C14_ExitsOnFirstEmptyRead ==
    [][\A k \in Kinds :
          /\ (pump_pc[k] = "read" /\ pump_pc'[k] # "read") =>
                IF Len(in_q[k]) = 0
                THEN /\ pump_pc'[k] = "done"
                     /\ pump_exit'[k] = "eof"
                     /\ pump_hand'[k] = NoEntry
                     /\ delivered'[k] = delivered[k]
                ELSE /\ in_q'[k] = Tail(in_q[k])
                     /\ pump_pc'[k] = "send"
          /\ (Len(delivered'[k]) > Len(delivered[k])) =>
                Len(delivered'[k]) + Len(in_q'[k]) <= Len(accepted'[k])
          /\ (pump_pc[k] = "read" /\ Len(in_q[k]) = 0) =>
                ENABLED (PumpRead(k) /\ pump_pc'[k] = "done")]_vars

\* A pump has left on ErrIoEOF after forwarding two packets, all of it after
\* close() returned.
C14_Witness ==
    \E k \in Kinds :
        /\ nclose >= 1
        /\ pump_pc[k] = "done" /\ pump_exit[k] = "eof"
        /\ Len(delivered[k]) >= 2

\* ------------------------------------------------- construction
\* MockStream::new step by step: the stream is allocated with both writer
\* slots empty, the interceptor's writers are stored in them, the readers are
\* bound and the pump tasks spawned; only then is the stream handed out.
InitNew ==
    /\ new_pc = "start"
    /\ writer = [k \in Kinds |-> "None"]
    /\ pump_pc = [k \in Kinds |-> "unspawned"]
    /\ in_tx = [k \in Kinds |-> TRUE]
    /\ in_q = [k \in Kinds |-> <<>>]
    /\ out_q = [k \in Kinds |-> <<>>]
    /\ rd_q = [k \in Kinds |-> <<>>]
    /\ pump_buf = [k \in Kinds |-> Zeros(BufLen)]
    /\ pump_hand = [k \in Kinds |-> NoEntry]
    /\ pump_exit = [k \in Kinds |-> "none"]
    /\ wr_susp = [k \in Kinds |-> NoPkt]
    /\ close_pc = "idle"
    /\ nclose = 0
    /\ close_res = <<>>
    /\ iclose_calls = 0
    /\ nw = [k \in Kinds |-> 0]
    /\ nr = [k \in Kinds |-> 0]
    /\ wdone = [k \in Kinds |-> <<>>]
    /\ wobs = [k \in Kinds |-> <<>>]
    /\ w_eos = [k \in Kinds |-> FALSE]
    /\ accepted = [k \in Kinds |-> <<>>]
    /\ delivered = [k \in Kinds |-> <<>>]
    /\ robs = [k \in Kinds |-> <<>>]
    /\ eos = [k \in Kinds |-> FALSE]
    /\ late = [k \in Kinds |-> 0]
    /\ rcall = [k \in Kinds |-> NoCall]
    /\ wt_wait = [k \in Kinds |-> FALSE]
    /\ rd_wait = [k \in Kinds |-> FALSE]
    /\ wres = [k \in Kinds |-> NoResult]
    /\ icept = "NoOp"

\* *rw = Some(rtcp_writer)
NewBindRtcpWriter ==
    /\ new_pc = "start"
    /\ writer' = [writer EXCEPT !["rtcp"] = "Some"]
    /\ new_pc' = "rtcp_writer"
    /\ UNCHANGED <<out_q, wr_susp, nw, wdone, wobs, w_eos, wres, icept, lockVars, rcall>>
    /\ UNCHANGED <<inVars, pumpVars, readVars, closeVars>>

\* (variant: the bound RTP writer is not stored)
NewBindRtpWriter_NotStored ==
    /\ new_pc = "rtcp_writer"
    /\ new_pc' = "rtp_writer"
    /\ UNCHANGED <<writer, out_q, wr_susp, nw, wdone, wobs, w_eos, wres, icept, lockVars, rcall>>
    /\ UNCHANGED <<inVars, pumpVars, readVars, closeVars>>

\* *rw = Some(rtp_writer)
NewBindRtpWriter ==
    /\ new_pc = "rtcp_writer"
    /\ writer' = [writer EXCEPT !["rtp"] = "Some"]
    /\ new_pc' = "rtp_writer"
    /\ UNCHANGED <<out_q, wr_susp, nw, wdone, wobs, w_eos, wres, icept, lockVars, rcall>>
    /\ UNCHANGED <<inVars, pumpVars, readVars, closeVars>>

\* bind_rtcp_reader, then tokio::spawn of the RTCP pump
NewSpawnRtcpPump ==
    /\ new_pc = "rtp_writer"
    /\ pump_pc' = [pump_pc EXCEPT !["rtcp"] = "read"]
    /\ new_pc' = "rtcp_pump"
    /\ UNCHANGED <<pump_buf, pump_hand, pump_exit, delivered, icept, lockVars, rcall>>
    /\ UNCHANGED <<outVars, inVars, readVars, closeVars>>

\* bind_remote_stream, then tokio::spawn of the RTP pump; new returns the stream
NewSpawnRtpPump ==
    /\ new_pc = "rtcp_pump"
    /\ pump_pc' = [pump_pc EXCEPT !["rtp"] = "read"]
    /\ new_pc' = "done"
    /\ UNCHANGED <<pump_buf, pump_hand, pump_exit, delivered, icept, lockVars, rcall>>
    /\ UNCHANGED <<outVars, inVars, readVars, closeVars>>

\* The stream's methods can be called once new has returned it.
NextNew ==
    \/ NewBindRtcpWriter
    \/ NewBindRtpWriter
    \/ NewSpawnRtcpPump
    \/ NewSpawnRtpPump
    \/ (new_pc = "done" /\ Next)

SpecNew == InitNew /\ [][NextNew]_vars

\* C15: a writer slot changes only inside new, from unset to set, hence once;
\* from the moment new has returned both slots are set and stay set, close()
\* included; write_* is only ever called with its slot set and so never
\* returns the error of an unset slot -- the branch that returns it enqueues
\* nothing.
C15_WriterBoundOnceInNew ==
    [][\A k \in Kinds :
          /\ (writer'[k] # writer[k]) =>
                (new_pc # "done" /\ writer[k] = "None" /\ writer'[k] = "Some")
          /\ (new_pc = "done") =>
                (new_pc' = "done" /\ writer[k] = "Some" /\ writer'[k] = "Some")
          /\ (nw'[k] # nw[k]) =>
                (new_pc = "done" /\ writer[k] = "Some" /\ wres'[k] # InvalidWriter(k))
          /\ (wres'[k] = InvalidWriter(k)) =>
                (out_q'[k] = out_q[k] /\ wr_susp'[k] = wr_susp[k] /\ wdone'[k] = wdone[k])]_vars

\* new has returned, the stream has been closed, both slots are still set and
\* a write of each kind has returned Ok.
C15_Witness ==
    /\ new_pc = "done"
    /\ nclose >= 1
    /\ \A k \in Kinds : writer[k] = "Some" /\ nw[k] >= 1 /\ wres[k].ok

\* C16: the step in which a write through the harness's writer completes
\* returns Ok(0) and puts exactly the packet written at the tail of the
\* outbound observation channel of its kind; the other kind's outbound channel
\* and every inbound and read channel are left as they were.  So of two writes
\* the earlier packet is ahead of the later one on the written stream.
C16_HarnessWriteAppends ==
    [][\A k \in Kinds :
          (wdone'[k] # wdone[k]) =>
             LET p == wdone'[k][Len(wdone'[k])]
             IN  /\ wdone'[k] = Append(wdone[k], p)
                 /\ p = (IF wr_susp[k] # NoPkt THEN wr_susp[k] ELSE WritePkt(k))
                 /\ out_q'[k] = Append(out_q[k], p)
                 /\ wres'[k] = [ok |-> TRUE, n |-> 0, err |-> "none"]
                 /\ \A j \in Kinds \ {k} : out_q'[j] = out_q[j]
                 /\ in_q' = in_q /\ rd_q' = rd_q
                 /\ LET s == wobs'[k] \o out_q'[k]
                    IN  \A i \in 1..Len(s) : s[i] = wdone'[k][i]]_vars

\* Two packets written one after the other wait on an outbound channel, the
\* earlier one first, and both writes have returned Ok(0).
C16_Witness ==
    \E k \in Kinds :
        /\ Len(out_q[k]) = 2
        /\ out_q[k] = wdone[k]
        /\ out_q[k][1].id = -1 /\ out_q[k][2].id = -2
        /\ wres[k] = [ok |-> TRUE, n |-> 0, err |-> "none"]

\* ------------------------------------------------- shutdown
\* The inbound path on its own -- injection, the pumps, the consumer of the
\* read streams, close() -- with the scheduling the runtime gives: a pump task
\* that can run is run, and the consumer keeps calling read_*.
\* (One class of packet that ends the pump stands for the three.)
ShutdownPkts(k) == {p \in ReceivePkts(k) : p.cls \in {"ok", "nodec"}}

NextInbound ==
    \/ \E k \in Kinds : \E p \in ShutdownPkts(k) : Receive(k, p)
    \/ \E k \in Kinds : PumpRead(k)
    \/ \E k \in Kinds : PumpSend(k)
    \/ \E k \in Kinds : Read(k)
    \/ CloseTakeRtcp
    \/ CloseTakeRtp
    \/ CloseInterceptor

SpecShutdown ==
    /\ Init
    /\ [][NextInbound]_vars
    /\ \A k \in Kinds : WF_vars(PumpRead(k))
    /\ \A k \in Kinds : WF_vars(PumpSend(k))
    /\ \A k \in Kinds : WF_vars(Read(k))

\* C17: once a close() has returned, and with the consumer draining the read
\* streams, each pump eventually terminates and each read stream eventually
\* reports end-of-stream (None), and goes on reporting it.
C17_ShutdownCompletes ==
    \A k \in Kinds :
        (nclose >= 1) ~> [](pump_pc[k] = "done" /\ eos[k] /\ Len(rd_q[k]) = 0)

\* After a close() both pumps have terminated and both read streams have
\* reported end-of-stream, one of them after handing over what was forwarded.
C17_Witness ==
    /\ nclose >= 1
    /\ \A k \in Kinds : pump_pc[k] = "done" /\ eos[k]
    /\ \E k \in Kinds : Len(robs[k]) >= 1 /\ pump_exit[k] = "eof"

\* ------------------------------------------------- an interceptor whose close fails
\* The inbound path of a stream built with an interceptor whose close returns
\* an error.
InitFailingClose == NewStream /\ icept = "FailingClose"

SpecFailingClose == InitFailingClose /\ [][NextInbound]_vars

\* C18: with an interceptor whose close fails, whenever close() is about to
\* invoke the interceptor's close both inbound sender slots are already empty;
\* every close() returns the interceptor's error; and once one has returned
\* the slots are empty and no receive_* call made since was accepted.
C18_TornDownDespiteCloseError ==
    /\ (close_pc = "rtp_taken") => \A k \in Kinds : ~in_tx[k]
    /\ Len(close_res) = nclose
    /\ \A i \in 1..Len(close_res) : close_res[i] = "Err"
    /\ (nclose >= 1) =>
          \A k \in Kinds : ~in_tx[k] /\ Len(accepted[k]) + late[k] <= nr[k]

\* close() has returned the interceptor's error and a receive_* call made
\* afterwards was turned away.
C18_Witness ==
    /\ icept = "FailingClose"
    /\ nclose >= 1 /\ close_res[1] = "Err"
    /\ \E k \in Kinds : late[k] >= 1 /\ ~in_tx[k] /\ Len(accepted[k]) < nr[k]

\* C19: on a closed stream (under SpecClosed every step follows a close()) the
\* inbound sender slots are empty, but the writer slots are still set, every
\* write_* call made has returned Ok or waits for room, each packet written is
\* exactly once among what written_* returned and what waits on the outbound
\* channel, and the written stream has not ended and cannot: polled empty, it
\* stays pending.
C19_CloseLeavesOutboundPath ==
    /\ nclose >= 1
    /\ \A k \in Kinds :
          /\ ~in_tx[k]
          /\ writer[k] = "Some"
          /\ wres[k] \in {NoResult, HarnessWriteResult}
          /\ (nw[k] >= 1 /\ wr_susp[k] = NoPkt) => wres[k].ok
          /\ Len(wdone[k]) + (IF wr_susp[k] # NoPkt THEN 1 ELSE 0) = nw[k]
          /\ \A i \in 1..Len(wdone[k]) :
                Count(wobs[k] \o out_q[k], [id |-> -i, cls |-> "ok"]) = 1
          /\ ~w_eos[k]
          /\ Recv(out_q[k], OutSenderAlive(k)) \in {"Some", "Pending"}

\* After close(), two packets were written and returned by written_*, a
\* further close() has returned, and the outbound channel is empty again.
C19_Witness ==
    /\ nclose = 2
    /\ \E k \in Kinds :
          /\ Len(wobs[k]) = 2 /\ wobs[k] = wdone[k]
          /\ out_q[k] = <<>> /\ ~w_eos[k]

\* ------------------------------------------------- the stream's mutexes
\* Each kind has five mutexes: "writer" (rtcp_writer / rtp_writer), "in_tx",
\* "in_rx", "out_rx" (.._out_modified_rx) and "rd_rx" (.._in_modified_rx).
\* (variant: written_* locks the writer slot of its kind)
LockOf_WrittenLocksWriter(op) ==
    CASE op = "write" -> "writer"
      [] op = "written" -> "writer"
      [] op = "receive" -> "in_tx"
      [] op = "close" -> "in_tx"
      [] op = "read" -> "rd_rx"
      [] op = "pump" -> "in_rx"

\* The one mutex an operation locks (close: one at a time, per kind).
LockOf(op) ==
    CASE op = "write" -> "writer"
      [] op = "written" -> "out_rx"
      [] op = "receive" -> "in_tx"
      [] op = "close" -> "in_tx"
      [] op = "read" -> "rd_rx"
      [] op = "pump" -> "in_rx"

\* Who holds mutex m of kind k across a suspension: the write_* waiting for
\* room, the written_* / read_* / pump read waiting for a message.  receive_*
\* and close() do not suspend while they hold in_tx.
Holder(m, k) ==
    CASE m = "writer" -> IF wr_susp[k] # NoPkt THEN "write" ELSE "free"
      [] m = "out_rx" -> IF wt_wait[k] THEN "written" ELSE "free"
      [] m = "rd_rx" -> IF rd_wait[k] THEN "read" ELSE "free"
      [] m = "in_rx" -> IF /\ pump_pc[k] = "read"
                           /\ Recv(in_q[k], InSenderAlive(k)) = "Pending"
                        THEN "pump" ELSE "free"
      [] m = "in_tx" -> "free"

\* lock().await of a new call of op returns.
CanLock(op, k) == Holder(LockOf(op), k) = "free"

\* (Which packet is injected makes no difference to the mutexes.)
LockPkts(k) == {p \in ReceivePkts(k) : p.cls = "ok"}

LkWrite(k) == CanLock("write", k) /\ Write(k, WritePkt(k))

LkWritten(k) == CanLock("written", k) /\ Written(k)

\* written_* finds the channel empty: it suspends in recv(), holding out_rx.
WrittenSuspend(k) ==
    /\ CanLock("written", k)
    /\ Recv(out_q[k], OutSenderAlive(k)) = "Pending"
    /\ wt_wait' = [wt_wait EXCEPT ![k] = TRUE]
    /\ UNCHANGED <<outVars, inVars, pumpVars, readVars, closeVars>>
    /\ UNCHANGED <<new_pc, icept, rd_wait, rcall>>

\* ... and returns the message that arrives.
WrittenResume(k) ==
    /\ wt_wait[k]
    /\ Recv(out_q[k], OutSenderAlive(k)) = "Some"
    /\ wobs' = [wobs EXCEPT ![k] = Append(@, Head(out_q[k]))]
    /\ out_q' = [out_q EXCEPT ![k] = Tail(@)]
    /\ wt_wait' = [wt_wait EXCEPT ![k] = FALSE]
    /\ UNCHANGED <<writer, wr_susp, nw, wdone, w_eos, wres>>
    /\ UNCHANGED <<inVars, pumpVars, readVars, closeVars>>
    /\ UNCHANGED <<new_pc, icept, rd_wait, rcall>>

LkReceive(k, p) == CanLock("receive", k) /\ Receive(k, p)

LkPumpRead(k) == Holder(LockOf("pump"), k) \in {"free", "pump"} /\ PumpRead(k)

LkRead(k) == CanLock("read", k) /\ Read(k)

\* read_* finds the channel empty: it suspends in recv(), holding rd_rx.
ReadSuspend(k) ==
    /\ CanLock("read", k)
    /\ Recv(rd_q[k], RdSenderAlive(k)) = "Pending"
    /\ rd_wait' = [rd_wait EXCEPT ![k] = TRUE]
    /\ UNCHANGED <<outVars, inVars, pumpVars, readVars, closeVars>>
    /\ UNCHANGED <<new_pc, icept, wt_wait, rcall>>

\* ... and returns the entry that arrives, or None once the pump is gone.
ReadResume(k) ==
    /\ rd_wait[k]
    /\ Recv(rd_q[k], RdSenderAlive(k)) # "Pending"
    /\ IF Recv(rd_q[k], RdSenderAlive(k)) = "Some"
       THEN /\ robs' = [robs EXCEPT ![k] = Append(@, Head(rd_q[k]))]
            /\ rd_q' = [rd_q EXCEPT ![k] = Tail(@)]
            /\ UNCHANGED eos
       ELSE /\ eos' = [eos EXCEPT ![k] = TRUE]
            /\ UNCHANGED <<robs, rd_q>>
    /\ rd_wait' = [rd_wait EXCEPT ![k] = FALSE]
    /\ UNCHANGED <<outVars, inVars, pumpVars, closeVars>>
    /\ UNCHANGED <<new_pc, icept, wt_wait, rcall>>

\* (One close() is followed; a later one locks the same way.)
LkCloseTakeRtcp == CanLock("close", "rtcp") /\ nclose = 0 /\ CloseTakeRtcp

LkCloseTakeRtp == CanLock("close", "rtp") /\ CloseTakeRtp

NextLocks ==
    \/ \E k \in Kinds : LkWrite(k)
    \/ \E k \in Kinds : WriteResume(k)
    \/ \E k \in Kinds : LkWritten(k)
    \/ \E k \in Kinds : WrittenSuspend(k)
    \/ \E k \in Kinds : WrittenResume(k)
    \/ \E k \in Kinds : \E p \in LockPkts(k) : LkReceive(k, p)
    \/ \E k \in Kinds : LkPumpRead(k)
    \/ \E k \in Kinds : PumpSend(k)
    \/ \E k \in Kinds : LkRead(k)
    \/ \E k \in Kinds : ReadSuspend(k)
    \/ \E k \in Kinds : ReadResume(k)
    \/ LkCloseTakeRtcp
    \/ LkCloseTakeRtp
    \/ CloseInterceptor

SpecLocks == Init /\ [][NextLocks]_vars

Spec == Init /\ [][Next]_vars
====
